---- MODULE Spec2Model ----
(***************************************************************************)
(* Model of app.py: the WMS wizard of the Leaflet / Web Map Service sample *)
(* app.  The state is the form parameters the platform keeps, the wizard   *)
(* step, the response the remote service currently gives, the outcome of   *)
(* the callback invoked last and the number of objects constructed so far. *)
(***************************************************************************)
EXTENDS Integers, Sequences, FiniteSets, TLC

VARIABLES params, step, svc, last, nObjects

vars == <<params, step, svc, last, nObjects>>

(* ------------------------------ bounds --------------------------------- *)

\* Most layers a service reports.
MaxLayers == 2

\* Most layers the user selects in the multi-select field.
MaxSelected == 2

\* Most objects (WebMapService sessions, folium Maps) constructed in a run.
MaxObjects == 3

(* --------------------------- program constants ------------------------- *)

WMS_DEFAULT == "https://service.pdok.nl/wandelnet/regionale-wandelnetwerken/wms/v1_0?version=1.3.0&request=getcapabilities&service=wms"

PLACEHOLDER_OPTION == "Please enter WMS url and version"

MSG_VALIDATE == "Please enter a valid WMS-url first. Click on the button 'Use sample WMS' for an example."

MSG_CHECK_URL == "The provided url seems to be incorrect. Please check input for WMS url."

MSG_NOT_WMS == "The provided url does not seem to point at a WMS-layer, please check input for WMS url."

MSG_ENTER_URL == "Pleas enter a WMS url"

WmsVersions == {"1.1.1", "1.3.0"}

DefaultVersion == "1.3.0"

Formats == {"image/png", "image/jpeg"}

DefaultFormat == "image/png"

Steps == <<"Introduction", "WMS set-up", "Custom WMS", "What's next">>

MapLocation == <<"51.922408", "4.4695292">>

ZoomStart == 13

\* Python's None, where a value of another type is expected.
None == "<None>"

(* ------------------------------ inputs --------------------------------- *)

\* What the user can type in the URL field: nothing, the sample, another URL.
OtherUrl == "https://example.org/geoserver/wms"

Urls == {"", WMS_DEFAULT, OtherUrl}

AllLayerNames == <<"roads", "rivers", "parks", "rails", "lakes">>

LayerNames == {AllLayerNames[i] : i \in 1..MaxLayers}

\* Sequences without repetition over S, of length at most n.
InjectiveSeqs(S, n) ==
    UNION {{s \in [1..k -> S] : \A i, j \in 1..k : i # j => s[i] # s[j]} : k \in 0..n}

\* The layer lists a capabilities document can report (its contents keys).
LayerLists == InjectiveSeqs(LayerNames, MaxLayers)

\* What the multi-select field can hold: layer names once offered, or the
\* placeholder option.
Selections == InjectiveSeqs(LayerNames, MaxSelected) \cup {<<PLACEHOLDER_OPTION>>}

\* The exception kinds the two except clauses name.
RecognisedKinds == {"RequestException", "XMLSyntaxError"}

\* What a request to a service can end in besides a capabilities document: no
\* connection, a body that is no XML, and kinds the except clauses do not name
\* (the client library's ServiceException for a service exception report, a
\* ValueError while it reads the document).
ServiceFailKinds == {"RequestException", "XMLSyntaxError", "ServiceException", "ValueError"}

\* A request with the empty URL fails before it is sent (the HTTP library's
\* MissingSchema, a RequestException).
EmptyUrlFailure == "RequestException"

ServiceUrl == "https://wms.example.org/ows"

ServiceTitle == "Regional hiking networks"

Failure(e) == [ok |-> FALSE, exc |-> e, contents |-> <<>>, url |-> "", title |-> ""]

Capabilities(c) == [ok |-> TRUE, exc |-> "", contents |-> c, url |-> ServiceUrl, title |-> ServiceTitle]

\* What a GetCapabilities request to the service ends in.
Responses == {Failure(e) : e \in ServiceFailKinds} \cup {Capabilities(c) : c \in LayerLists}

\* The response a request with this URL meets: the service's for a URL, a
\* failure inside the client library for the empty one.
ResponseTo(url, r) == IF url = "" THEN Failure(EmptyUrlFailure) ELSE r

(* ---------------------------- result values ---------------------------- *)

NoWms == [id |-> 0, reqUrl |-> "", version |-> "", url |-> "", contents |-> <<>>, title |-> ""]

NoMap == [id |-> 0, location |-> <<>>, zoom_start |-> 0, children |-> <<>>]

NoCall ==
    [cb |-> "none", outcome |-> "none", exc |-> "", msg |-> "", requests |-> <<>>,
     response |-> Failure(""), wms |-> NoWms, options |-> <<>>, data |-> <<>>,
     map |-> NoMap, html |-> "", setparams |-> {}, heapBefore |-> 0]

(* ------------------------- the WMS client library ---------------------- *)

\* WebMapService(url, version): one GetCapabilities request.  It yields a new
\* session object (identity id) reporting what the service answered, or the
\* exception the request ended in.
WebMapService(url, version, resp, id) ==
    [request |-> [url |-> url, version |-> version],
     ok |-> resp.ok,
     exc |-> resp.exc,
     wms |-> IF resp.ok
             THEN [id |-> id, reqUrl |-> url, version |-> version, url |-> resp.url,
                   contents |-> resp.contents, title |-> resp.title]
             ELSE NoWms]

(* --------------------------- module functions -------------------------- *)

Return(requests) == [NoCall EXCEPT !.outcome = "return", !.requests = requests]

Raise(exc, msg, requests) ==
    [NoCall EXCEPT !.outcome = "raise", !.exc = exc, !.msg = msg, !.requests = requests]

\* _get_layer_options: the options of the multi-select field.
_get_layer_options(p, resp, id) ==
    IF p.wms_input # ""
    THEN LET a == WebMapService(p.wms_input, p.wms_version, resp, id)
         IN  IF a.ok
             THEN [Return(<<a.request>>) EXCEPT
                     !.wms = a.wms,
                     !.options = IF a.wms.contents # <<>> THEN a.wms.contents
                                 ELSE <<PLACEHOLDER_OPTION>>]
             ELSE IF a.exc \in RecognisedKinds
             THEN [Return(<<a.request>>) EXCEPT !.options = <<PLACEHOLDER_OPTION>>]
             ELSE Raise(a.exc, "", <<a.request>>)
    ELSE [Return(<<>>) EXCEPT !.options = <<PLACEHOLDER_OPTION>>]

\* Mutant: the validator with a bare "except Exception".
_validate_wms_details_catch_all(p, resp, id) ==
    LET a == WebMapService(p.wms_input, p.wms_version, resp, id)
    IN  IF a.ok THEN [Return(<<a.request>>) EXCEPT !.wms = a.wms]
        ELSE Raise("UserError", MSG_VALIDATE, <<a.request>>)

\* _validate_wms_details: the on_next validator of the step "WMS set-up".
_validate_wms_details(p, resp, id) ==
    LET a == WebMapService(p.wms_input, p.wms_version, resp, id)
    IN  IF a.ok THEN [Return(<<a.request>>) EXCEPT !.wms = a.wms]
        ELSE IF a.exc \in RecognisedKinds THEN Raise("UserError", MSG_VALIDATE, <<a.request>>)
        ELSE Raise(a.exc, "", <<a.request>>)

\* Mutant: the two except clauses with their messages exchanged.
connect_to_WMS_swapped(wms_url, wms_version, resp, id) ==
    LET a == WebMapService(wms_url, wms_version, resp, id)
    IN  IF a.ok THEN [Return(<<a.request>>) EXCEPT !.wms = a.wms]
        ELSE IF a.exc = "RequestException" THEN Raise("UserError", MSG_NOT_WMS, <<a.request>>)
        ELSE IF a.exc = "XMLSyntaxError" THEN Raise("UserError", MSG_CHECK_URL, <<a.request>>)
        ELSE Raise(a.exc, "", <<a.request>>)

\* connect_to_WMS: the session, or one of two user errors.
connect_to_WMS(wms_url, wms_version, resp, id) ==
    LET a == WebMapService(wms_url, wms_version, resp, id)
    IN  IF a.ok THEN [Return(<<a.request>>) EXCEPT !.wms = a.wms]
        ELSE IF a.exc = "RequestException" THEN Raise("UserError", MSG_CHECK_URL, <<a.request>>)
        ELSE IF a.exc = "XMLSyntaxError" THEN Raise("UserError", MSG_NOT_WMS, <<a.request>>)
        ELSE Raise(a.exc, "", <<a.request>>)

Reverse(q) == [i \in 1..Len(q) |-> q[Len(q) + 1 - i]]

\* Mutant: the layers listed in another order than the service reports them.
get_WMS_details_reordered(wms) ==
    [base_url |-> wms.url, layers |-> Reverse(wms.contents), name |-> wms.title]

\* get_WMS_details: base url, layers and name of a session.
get_WMS_details(wms) ==
    [base_url |-> wms.url, layers |-> wms.contents, name |-> wms.title]

(* ------------------------------ the views ------------------------------ *)

DataItem(label, value, subgroup) == [label |-> label, value |-> value, subgroup |-> subgroup]

\* Mutant: enumerate without start=1.
show_wms_details_from_zero(p, resp, id) ==
    IF p.wms_input = ""
    THEN [Return(<<>>) EXCEPT !.data = <<DataItem(MSG_ENTER_URL, None, <<>>)>>]
    ELSE LET c == connect_to_WMS(p.wms_input, p.wms_version, resp, id)
             d == [base_url |-> c.wms.url, layers |-> c.wms.contents, name |-> c.wms.title]
         IN  IF c.outcome = "raise" THEN c
             ELSE [c EXCEPT !.data =
                     <<DataItem("Base url", d.base_url, <<>>),
                       DataItem("Layers", ToString(Len(d.layers)) \o " layers",
                                [i \in 1..Len(d.layers) |->
                                    DataItem("Layer " \o ToString(i - 1), d.layers[i], <<>>)]),
                       DataItem("Name", d.name, <<>>)>>]

\* Controller.show_wms_details: the data view of the step "WMS set-up".
show_wms_details(p, resp, id) ==
    IF p.wms_input = ""
    THEN [Return(<<>>) EXCEPT !.data = <<DataItem(MSG_ENTER_URL, None, <<>>)>>]
    ELSE LET c == connect_to_WMS(p.wms_input, p.wms_version, resp, id)
             d == get_WMS_details(c.wms)
         IN  IF c.outcome = "raise" THEN c
             ELSE [c EXCEPT !.data =
                     <<DataItem("Base url", d.base_url, <<>>),
                       DataItem("Layers", ToString(Len(d.layers)) \o " layers",
                                [i \in 1..Len(d.layers) |->
                                    DataItem("Layer " \o ToString(i), d.layers[i], <<>>)]),
                       DataItem("Name", d.name, <<>>)>>]

Layer(kind, url, layers, name, overlay, show) ==
    [kind |-> kind, url |-> url, layers |-> layers, transparent |-> FALSE, control |-> TRUE,
     fmt |-> "", name |-> name, overlay |-> overlay, show |-> show, version |-> ""]

WmsTileLayer(url, layers, fmt, name, version) ==
    [Layer("WmsTileLayer", url, layers, name, TRUE, TRUE) EXCEPT
        !.transparent = TRUE, !.fmt = fmt, !.version = version]

LayerControl == Layer("LayerControl", "", <<>>, "", FALSE, FALSE)

Draw == Layer("Draw", "", <<>>, "", FALSE, FALSE)

Map(id, children) ==
    [id |-> id, location |-> MapLocation, zoom_start |-> ZoomStart, children |-> children]

\* Mutant: the overlay shows every layer of the service, not the selection.
custom_wms_map_all_layers(p, resp, mapId, wmsId) ==
    LET c == connect_to_WMS(p.wms_input, p.wms_version, resp, wmsId)
    IN  IF c.outcome = "raise" THEN c
        ELSE [c EXCEPT
                !.map = Map(mapId, <<WmsTileLayer(c.wms.url, c.wms.contents, p.fmt_format,
                                                  c.wms.title, p.wms_version),
                                     LayerControl>>),
                !.html = "folium map"]

\* Mutant: one module-level Map (made at import, object 0) that every
\* invocation adds its overlay to.
custom_wms_map_shared_map(p, resp, mapId, wmsId) ==
    LET c == connect_to_WMS(p.wms_input, p.wms_version, resp, wmsId)
    IN  IF c.outcome = "raise" THEN c
        ELSE [c EXCEPT
                !.map = Map(0, <<WmsTileLayer(c.wms.url, p.layer_options, p.fmt_format,
                                              c.wms.title, p.wms_version),
                                 LayerControl>>),
                !.html = "folium map"]

\* Controller.custom_wms_map: the map with the WMS overlay of the user.
custom_wms_map(p, resp, mapId, wmsId) ==
    LET c == connect_to_WMS(p.wms_input, p.wms_version, resp, wmsId)
        d == get_WMS_details(c.wms)
    IN  IF c.outcome = "raise" THEN c
        ELSE [c EXCEPT
                !.map = Map(mapId, <<WmsTileLayer(d.base_url, p.layer_options, p.fmt_format,
                                                  d.name, p.wms_version),
                                     LayerControl>>),
                !.html = "folium map"]

\* Controller.leaflet_introduction: the fixed sample map.
leaflet_introduction(mapId) ==
    [Return(<<>>) EXCEPT
        !.map = Map(mapId,
            <<Layer("TileLayer", "https://service.pdok.nl/hwh/luchtfotorgb/wmts/v1_0/Actueel_ortho25/EPSG:3857/{z}/{x}/{y}.jpeg",
                    <<>>, "NL luchtfoto 2020", FALSE, TRUE),
              Layer("TileLayer", "https://service.pdok.nl/hwh/luchtfotorgb/wmts/v1_0/2018_ortho25/EPSG:3857/{z}/{x}/{y}.jpeg",
                    <<>>, "NL luchtfoto 2018", FALSE, TRUE),
              Layer("TileLayer", "https://stamen-tiles-{s}.a.ssl.fastly.net/watercolor/{z}/{x}/{y}.jpg",
                    <<>>, "Watercolor", FALSE, TRUE),
              Layer("TileLayer", "https://tiles.openseamap.org/seamark/{z}/{x}/{y}.png",
                    <<>>, "OpenSeaMap", TRUE, TRUE),
              Layer("TileLayer", "https://{s}.tiles.openrailwaymap.org/standard/{z}/{x}/{y}.png",
                    <<>>, "OpenRailWay", TRUE, FALSE),
              WmsTileLayer("https://service.pdok.nl/rws/vaarwegmarkeringennld/wms/v1_0",
                           <<"markdrijvendrd", "markvastrd">>, "image/png",
                           "Vaarwegmarkeringen WMS", "1.3.0"),
              Draw,
              LayerControl>>),
        !.html = "folium map"]

\* Mutant: the button also puts the version back to its default.
set_sample_wms_and_version ==
    [Return(<<>>) EXCEPT !.setparams = {<<"wms_input", WMS_DEFAULT>>,
                                        <<"wms_version", DefaultVersion>>}]

\* Controller.set_sample_wms: the fields the button sets.
set_sample_wms == [Return(<<>>) EXCEPT !.setparams = {<<"wms_input", WMS_DEFAULT>>}]

\* Controller.final_step: the bundled page.
final_step == [Return(<<>>) EXCEPT !.html = "final_step.html"]

(* ------------------------------ the state ------------------------------ *)

StepIndex(name) == CHOOSE i \in 1..Len(Steps) : Steps[i] = name

Init ==
    /\ params = [wms_input |-> "", wms_version |-> DefaultVersion,
                 fmt_format |-> DefaultFormat, layer_options |-> <<>>]
    /\ step = Steps[1]
    /\ svc \in Responses
    /\ last = NoCall
    /\ nObjects = 0

\* The record of a callback invocation: what it returned or raised, the
\* response its request met and the number of objects that existed before.
Invocation(cb, result, resp) ==
    [result EXCEPT !.cb = cb, !.heapBefore = nObjects,
                   !.response = IF result.requests # <<>> THEN resp ELSE Failure("")]

\* The platform merges a SetParamsResult into the stored parameters.
ApplySetParams(p, result) ==
    [f \in DOMAIN p |->
        IF \E kv \in result : kv[1] = f
        THEN (CHOOSE kv \in result : kv[1] = f)[2]
        ELSE p[f]]

(* ------------------ the user and the service (environment) ------------- *)

EditUrl(u) ==
    /\ step = "WMS set-up"
    /\ u # params.wms_input
    /\ params' = [params EXCEPT !.wms_input = u]
    /\ last' = NoCall
    /\ UNCHANGED <<step, svc, nObjects>>

EditVersion(v) ==
    /\ step = "WMS set-up"
    /\ v # params.wms_version
    /\ params' = [params EXCEPT !.wms_version = v]
    /\ last' = NoCall
    /\ UNCHANGED <<step, svc, nObjects>>

EditFormat(f) ==
    /\ step = "WMS set-up"
    /\ f # params.fmt_format
    /\ params' = [params EXCEPT !.fmt_format = f]
    /\ last' = NoCall
    /\ UNCHANGED <<step, svc, nObjects>>

SelectLayers(s) ==
    /\ step = "Custom WMS"
    /\ s # params.layer_options
    /\ params' = [params EXCEPT !.layer_options = s]
    /\ last' = NoCall
    /\ UNCHANGED <<step, svc, nObjects>>

ServiceChanges(r) ==
    /\ r # svc
    /\ svc' = r
    /\ last' = NoCall
    /\ UNCHANGED <<params, step, nObjects>>

(* ------------------------------ callbacks ------------------------------ *)

\* The platform evaluates the options of the multi-select field.
LayerOptions ==
    /\ nObjects + 1 <= MaxObjects
    /\ LET resp == ResponseTo(params.wms_input, svc)
           r == _get_layer_options(params, resp, nObjects + 1)
       IN  /\ last' = Invocation("_get_layer_options", r, resp)
           /\ nObjects' = nObjects + Len(r.requests)
    /\ UNCHANGED <<params, step, svc>>

\* "Next" on a step without on_next.
NextStep ==
    /\ step \in {"Introduction", "Custom WMS"}
    /\ step' = Steps[StepIndex(step) + 1]
    /\ last' = NoCall
    /\ UNCHANGED <<params, svc, nObjects>>

\* "Next" on the step "WMS set-up": the platform runs on_next and moves on
\* only when it returns.
NextFromSetup ==
    /\ step = "WMS set-up"
    /\ nObjects + 1 <= MaxObjects
    /\ LET resp == ResponseTo(params.wms_input, svc)
           r == _validate_wms_details(params, resp, nObjects + 1)
       IN  /\ last' = Invocation("_validate_wms_details", r, resp)
           /\ nObjects' = nObjects + Len(r.requests)
           /\ step' = IF r.outcome = "return" THEN "Custom WMS" ELSE step
    /\ UNCHANGED <<params, svc>>

\* "Previous": no hook runs.
PreviousStep ==
    /\ step # Steps[1]
    /\ step' = Steps[StepIndex(step) - 1]
    /\ last' = NoCall
    /\ UNCHANGED <<params, svc, nObjects>>

ViewIntroduction ==
    /\ step = "Introduction"
    /\ nObjects + 1 <= MaxObjects
    /\ last' = Invocation("leaflet_introduction", leaflet_introduction(nObjects + 1), svc)
    /\ nObjects' = nObjects + 1
    /\ UNCHANGED <<params, step, svc>>

UseSampleWms ==
    /\ step = "WMS set-up"
    /\ last' = Invocation("set_sample_wms", set_sample_wms, svc)
    /\ params' = ApplySetParams(params, set_sample_wms.setparams)
    /\ UNCHANGED <<step, svc, nObjects>>

ViewWmsDetails ==
    /\ step = "WMS set-up"
    /\ nObjects + 1 <= MaxObjects
    /\ LET resp == ResponseTo(params.wms_input, svc)
           r == show_wms_details(params, resp, nObjects + 1)
       IN  /\ last' = Invocation("show_wms_details", r, resp)
           /\ nObjects' = nObjects + Len(r.requests)
    /\ UNCHANGED <<params, step, svc>>

ViewCustomMap ==
    /\ step = "Custom WMS"
    /\ nObjects + 2 <= MaxObjects
    /\ LET resp == ResponseTo(params.wms_input, svc)
           r == custom_wms_map(params, resp, nObjects + 1, nObjects + 2)
       IN  /\ last' = Invocation("custom_wms_map", r, resp)
           /\ nObjects' = nObjects + 1 + Len(r.requests)
    /\ UNCHANGED <<params, step, svc>>

ViewFinalStep ==
    /\ step = "What's next"
    /\ last' = Invocation("final_step", final_step, svc)
    /\ UNCHANGED <<params, step, svc, nObjects>>

Next ==
    \/ \E u \in Urls : EditUrl(u)
    \/ \E v \in WmsVersions : EditVersion(v)
    \/ \E f \in Formats : EditFormat(f)
    \/ \E s \in Selections : SelectLayers(s)
    \/ \E r \in Responses : ServiceChanges(r)
    \/ LayerOptions
    \/ NextStep
    \/ NextFromSetup
    \/ PreviousStep
    \/ ViewIntroduction
    \/ UseSampleWms
    \/ ViewWmsDetails
    \/ ViewCustomMap
    \/ ViewFinalStep

Spec == Init /\ [][Next]_vars

(* ------------------------- vocabulary of the claims -------------------- *)

\* The invocation recorded in last made a connection attempt.
Attempted == last.requests # <<>>

\* The request a callback makes from the current form parameters.
CurrentRequest == [url |-> params.wms_input, version |-> params.wms_version]

\* last.wms is the session of the attempt of this invocation.
SessionOfAttempt ==
    /\ last.wms.id > last.heapBefore
    /\ last.wms.id <= nObjects
    /\ last.wms.reqUrl = last.requests[1].url
    /\ last.wms.version = last.requests[1].version
    /\ last.wms.url = last.response.url
    /\ last.wms.contents = last.response.contents
    /\ last.wms.title = last.response.title

\* The invocation ran connect_to_WMS.
RanConnect == last.cb \in {"show_wms_details", "custom_wms_map"} /\ Attempted

RaisedUserError(msg) == last.outcome = "raise" /\ last.exc = "UserError" /\ last.msg = msg

\* The exception of the failed attempt left the callback as it was raised.
Propagated ==
    /\ last.outcome = "raise"
    /\ last.exc = last.response.exc
    /\ last.exc # "UserError"
    /\ last.msg = ""
    /\ last.options = <<>>
    /\ last.data = <<>>

(* --------------------------------- C1 ---------------------------------- *)

\* C1 as stated: connect_to_WMS makes one attempt and has exactly three
\* outcomes: the "check the WMS url" user error after a RequestException, the
\* "does not point at a WMS-layer" user error after an XMLSyntaxError, the
\* session of the attempt after a success.
C1_ThreeOutcomes ==
    RanConnect =>
        /\ Len(last.requests) = 1
        /\ \/ last.response.exc = "RequestException" /\ RaisedUserError(MSG_CHECK_URL)
           \/ last.response.exc = "XMLSyntaxError" /\ RaisedUserError(MSG_NOT_WMS)
           \/ last.response.ok /\ last.outcome = "return" /\ SessionOfAttempt

\* C1 amended: connect_to_WMS makes one attempt, without retry, and its outcome
\* is determined by the attempt: RequestException gives the "check the WMS url"
\* user error, XMLSyntaxError the distinct "does not point at a WMS-layer" user
\* error, success the session of that attempt, and any other exception kind
\* propagates unchanged.
C1_ConnectOutcomes ==
    RanConnect =>
        /\ Len(last.requests) = 1
        /\ last.requests[1] = CurrentRequest
        /\ MSG_CHECK_URL # MSG_NOT_WMS
        /\ last.response.exc = "RequestException" => RaisedUserError(MSG_CHECK_URL)
        /\ last.response.exc = "XMLSyntaxError" => RaisedUserError(MSG_NOT_WMS)
        /\ last.response.ok => last.outcome = "return" /\ SessionOfAttempt
        /\ (~last.response.ok /\ last.response.exc \notin RecognisedKinds) => Propagated

C1_Witness ==
    /\ last.cb = "custom_wms_map"
    /\ last.response.exc = "XMLSyntaxError"
    /\ RaisedUserError(MSG_NOT_WMS)

(* --------------------------------- C2 ---------------------------------- *)

\* C2 as stated: the wizard moves from "WMS set-up" to "Custom WMS" only when
\* the validator's attempt with the current URL and version succeeded; when
\* that attempt fails the wizard stays and a user error is raised; no other
\* transition runs a validation.
C2_GuardedTransition ==
    [][ /\ (step = "WMS set-up" /\ step' = "Custom WMS") =>
              /\ last'.cb = "_validate_wms_details"
              /\ last'.requests = <<CurrentRequest>>
              /\ last'.response.ok
              /\ last'.outcome = "return"
        /\ (last'.cb = "_validate_wms_details" /\ ~last'.response.ok) =>
              /\ step' = "WMS set-up"
              /\ last'.outcome = "raise"
              /\ last'.exc = "UserError"
        /\ (step' # step /\ ~(step = "WMS set-up" /\ step' = "Custom WMS")) =>
              /\ last'.cb = "none"
              /\ nObjects' = nObjects
      ]_vars

(* --------------------------------- C3 ---------------------------------- *)

\* C3 as stated: _get_layer_options never raises, whatever the input and the
\* outcome of the attempt: it returns a non-empty option list, the layer names
\* of the service or the single placeholder.
C3_NeverRaises ==
    last.cb = "_get_layer_options" =>
        /\ last.outcome = "return"
        /\ last.options # <<>>
        /\ \/ last.options = <<PLACEHOLDER_OPTION>>
           \/ last.response.ok /\ last.options = last.response.contents

(* --------------------------------- C4 ---------------------------------- *)

\* The layer list the Inspector returns for the session of this invocation.
InspectorLayers == get_WMS_details(last.wms).layers

ConnectedOptions == last.cb = "_get_layer_options" /\ Attempted /\ last.response.ok

\* C4 as stated: for every connected session, one reporting zero layers
\* included, the Inspector's layer list and the option list have the same
\* length and the same identifiers in the same order.
C4_SameLayersAlways ==
    ConnectedOptions =>
        /\ Len(InspectorLayers) = Len(last.options)
        /\ InspectorLayers = last.options

\* C4 amended: for every connected session that reports at least one layer the
\* Inspector's layer list and the option list have the same length and the same
\* identifiers in the same order; for a session that reports zero layers the
\* Inspector's list is empty and the option list is the single placeholder.
C4_SameLayers ==
    ConnectedOptions =>
        /\ SessionOfAttempt
        /\ last.response.contents # <<>> =>
              /\ Len(InspectorLayers) = Len(last.options)
              /\ \A i \in 1..Len(last.options) : InspectorLayers[i] = last.options[i]
              /\ last.options = last.response.contents
        /\ last.response.contents = <<>> =>
              /\ InspectorLayers = <<>>
              /\ last.options = <<PLACEHOLDER_OPTION>>

C4_Witness ==
    /\ ConnectedOptions
    /\ Len(last.options) = 2
    /\ last.options[1] # last.options[2]
    /\ InspectorLayers = last.options

(* --------------------------------- C5 ---------------------------------- *)

\* C5: when the attempt fails with an exception kind other than the two
\* recognised ones, connect_to_WMS (in both views), _validate_wms_details and
\* _get_layer_options turn it into neither a user error nor a placeholder: it
\* propagates unchanged.
C5_OtherKindsPropagate ==
    ( /\ last.cb \in {"show_wms_details", "custom_wms_map", "_validate_wms_details",
                      "_get_layer_options"}
      /\ Attempted
      /\ ~last.response.ok
      /\ last.response.exc \notin RecognisedKinds )
    => Propagated

C5_Witness ==
    /\ last.cb = "_validate_wms_details"
    /\ Attempted
    /\ last.response.exc = "ServiceException"
    /\ last.exc = "ServiceException"

(* --------------------------------- C6 ---------------------------------- *)

\* C6: whenever the "Use sample WMS" action runs, the URL field of the
\* resulting form state is WMS_DEFAULT, and the action sets no other field:
\* its result names the URL field alone and version, format and selected
\* layers stay as they were.
C6_SampleWms ==
    [][ last'.cb = "set_sample_wms" =>
          /\ params'.wms_input = WMS_DEFAULT
          /\ last'.setparams = {<<"wms_input", WMS_DEFAULT>>}
          /\ params'.wms_version = params.wms_version
          /\ params'.fmt_format = params.fmt_format
          /\ params'.layer_options = params.layer_options
          /\ DOMAIN params' = DOMAIN params
      ]_vars

C6_Witness ==
    /\ last.cb = "set_sample_wms"
    /\ params.wms_input = WMS_DEFAULT
    /\ params.wms_version # DefaultVersion
    /\ params.fmt_format # DefaultFormat
    /\ params.layer_options # <<>>

(* --------------------------------- C7 ---------------------------------- *)

PlaceholderShown ==
    /\ last.outcome = "return"
    /\ last.data = <<DataItem(MSG_ENTER_URL, None, <<>>)>>
    /\ last.requests = <<>>
    /\ last.wms = NoWms

\* The data group holds base URL, layers and name of the service's answer:
\* the count is the length of the list, the layers are numbered from 1 in the
\* order of the service.
DetailsShown ==
    LET n == Len(last.response.contents)
    IN  /\ last.response.ok
        /\ last.outcome = "return"
        /\ Len(last.data) = 3
        /\ last.data[1] = DataItem("Base url", last.response.url, <<>>)
        /\ last.data[2].label = "Layers"
        /\ last.data[2].value = ToString(n) \o " layers"
        /\ Len(last.data[2].subgroup) = n
        /\ \A i \in 1..n :
              /\ last.data[2].subgroup[i].label = "Layer " \o ToString(i)
              /\ last.data[2].subgroup[i].value = last.response.contents[i]
        /\ last.data[3] = DataItem("Name", last.response.title, <<>>)

ConnectorUserError ==
    \/ last.response.exc = "RequestException" /\ RaisedUserError(MSG_CHECK_URL)
    \/ last.response.exc = "XMLSyntaxError" /\ RaisedUserError(MSG_NOT_WMS)

\* C7 as stated: with an empty URL show_wms_details returns a placeholder
\* data item and makes no attempt; with a non-empty URL it makes exactly one
\* attempt and either returns base URL, numbered layers and name, or raises the
\* Connector's user error.
C7_DetailsOrUserError ==
    last.cb = "show_wms_details" =>
        IF params.wms_input = "" THEN PlaceholderShown
        ELSE /\ last.requests = <<CurrentRequest>>
             /\ DetailsShown \/ ConnectorUserError

\* C7 amended: with an empty URL show_wms_details returns a placeholder data
\* item and makes no attempt; with a non-empty URL it makes exactly one attempt
\* and returns base URL, numbered layers and name, or raises the Connector's
\* user error when the attempt fails with a recognised kind, or lets the
\* exception of the attempt propagate when it fails with any other kind.
C7_WmsDetailsView ==
    last.cb = "show_wms_details" =>
        IF params.wms_input = "" THEN PlaceholderShown
        ELSE /\ last.requests = <<CurrentRequest>>
             /\ \/ DetailsShown
                \/ ConnectorUserError
                \/ /\ ~last.response.ok
                   /\ last.response.exc \notin RecognisedKinds
                   /\ Propagated

C7_Witness ==
    /\ last.cb = "show_wms_details"
    /\ params.wms_input # ""
    /\ DetailsShown
    /\ Len(last.data[2].subgroup) = 2

C7_WitnessEmpty == last.cb = "show_wms_details" /\ params.wms_input = "" /\ PlaceholderShown

(* --------------------------------- C8 ---------------------------------- *)

WmsOverlays(m) == {i \in 1..Len(m.children) : m.children[i].kind = "WmsTileLayer"}

ConnectedMap == last.cb = "custom_wms_map" /\ Attempted /\ last.response.ok

\* C8: for every successful connection and every selection of layers, none
\* included, custom_wms_map produces a map with exactly one WMS overlay: base
\* URL and title are the session's, the layer list is the user's selection,
\* format and version are the form's, transparency and default visibility on.
C8_OneWmsOverlay ==
    ConnectedMap =>
        /\ last.outcome = "return"
        /\ Cardinality(WmsOverlays(last.map)) = 1
        /\ \A i \in WmsOverlays(last.map) :
              LET o == last.map.children[i]
              IN  /\ o.url = last.response.url
                  /\ o.name = last.response.title
                  /\ o.layers = params.layer_options
                  /\ o.fmt = params.fmt_format
                  /\ o.version = params.wms_version
                  /\ o.transparent
                  /\ o.show

C8_Witness ==
    /\ ConnectedMap
    /\ params.layer_options = <<>>
    /\ last.response.contents # <<>>
    /\ Cardinality(WmsOverlays(last.map)) = 1

C8_WitnessSelected ==
    /\ ConnectedMap
    /\ Len(params.layer_options) = 2
    /\ params.layer_options # last.response.contents
    /\ params.fmt_format = "image/jpeg"

(* --------------------------------- C9 ---------------------------------- *)

Connecting == {"show_wms_details", "custom_wms_map", "_validate_wms_details", "_get_layer_options"}

\* The callback must connect: always for the map view and the validator, with
\* a non-empty URL for the details view and the option provider.
MustConnect ==
    \/ last.cb \in {"custom_wms_map", "_validate_wms_details"}
    \/ last.cb \in {"show_wms_details", "_get_layer_options"} /\ params.wms_input # ""

Rendered ==
    \/ last.cb = "leaflet_introduction"
    \/ last.cb = "custom_wms_map" /\ last.outcome = "return"

\* C9: no state is shared between invocations: every callback that connects
\* opens its own connection from the current form parameters and meets the
\* current response of the service, the session it uses is an object made in
\* this invocation, and every rendering callback builds a new Map Document.
C9_NothingShared ==
    /\ (last.cb \in Connecting /\ MustConnect) =>
          /\ last.requests = <<CurrentRequest>>
          /\ last.response = ResponseTo(params.wms_input, svc)
    /\ (last.cb \in Connecting /\ ~MustConnect) => last.requests = <<>> /\ last.wms = NoWms
    /\ last.wms # NoWms =>
          /\ last.cb \in Connecting
          /\ SessionOfAttempt
          /\ last.wms.contents = svc.contents
    /\ Rendered =>
          /\ last.map.id > last.heapBefore
          /\ last.map.id <= nObjects
          /\ last.map.id # last.wms.id
    /\ last.map # NoMap => Rendered

C9_Witness ==
    /\ last.cb = "custom_wms_map"
    /\ last.outcome = "return"
    /\ last.heapBefore >= 1
    /\ last.map.id = last.heapBefore + 1
    /\ last.wms.id = last.heapBefore + 2

(* --------------------------------- C10 --------------------------------- *)

PlaceholderCase ==
    \/ params.wms_input = ""
    \/ ~last.response.ok /\ last.response.exc \in RecognisedKinds
    \/ last.response.ok /\ last.response.contents = <<>>

\* C10 as stated: for the same URL, version and response, the validator raises
\* a user error exactly when connect_to_WMS does, and _get_layer_options
\* returns the placeholder exactly when the URL is empty, the attempt fails
\* with a recognised kind or the session reports no layers; otherwise it
\* returns the session's layer names.
C10_CallSitesAgree ==
    /\ last.cb = "_validate_wms_details" =>
          ( (last.outcome = "raise" /\ last.exc = "UserError")
            <=> LET c == connect_to_WMS(params.wms_input, params.wms_version, last.response, 0)
                IN  c.outcome = "raise" /\ c.exc = "UserError" )
    /\ RanConnect =>
          ( (last.outcome = "raise" /\ last.exc = "UserError")
            <=> LET v == _validate_wms_details(params, last.response, 0)
                IN  v.outcome = "raise" /\ v.exc = "UserError" )
    /\ last.cb = "_get_layer_options" =>
          /\ (last.outcome = "return" /\ last.options = <<PLACEHOLDER_OPTION>>) <=> PlaceholderCase
          /\ ~PlaceholderCase =>
                (last.outcome = "return" /\ last.options = last.response.contents)

====
